---- MODULE Spec2Model ----
(***************************************************************************)
(* The live-file reconciliation controller (useLiveFileComparison) of      *)
(* big-AGI: a React hook that keeps a diff summary and a status line for   *)
(* a text buffer paired with an external file.                             *)
(*                                                                         *)
(* The hook's two pieces of React state (diffSummary, status), the props   *)
(* it is rendered with and the values its callbacks close over are the     *)
(* state.  The live-file store behind useLiveFile / liveFileCreateOrThrow  *)
(* is not part of the sources at hand; it is modelled from its described   *)
(* contract (pairWithHandle / isValid / read / write / close).             *)
(***************************************************************************)
EXTENDS Integers, Sequences, FiniteSets, TLC

\* ---------------------------------------------------------------- bounds
\* number of handles that can be paired in one run
MaxIds == 2
\* gateway reads that can be awaiting their I/O at once
MaxReads == 2
\* gateway writes that can be awaiting their I/O at once
MaxWrites == 1

\* ---------------------------------------------------------------- values
\* the texts of the buffer and of the file: empty, equal, one a prefix of the
\* other, and two with nothing in common
Texts == {<<>>, <<"a">>, <<"b">>, <<"a", "b">>}
\* `undefined` for a text-valued field
Undefined == <<"undefined">>
\* failure descriptions of the external read / write / pairing
Errors == {"E1", "E2"}
\* a falsy error (undefined, null or '')
NoError == ""
Ids == 1..MaxIds
\* `null` for the _liveFileId prop
NoId == 0

isMobile == FALSE

\* `null` for the status and for the diff summary
NullStatus == [message |-> "", mtype |-> "null"]
NullSummary == [isNull |-> TRUE]

Status(message, mtype) == [message |-> message, mtype |-> mtype]

VARIABLES
    liveFileId,      \* the _liveFileId prop (owned by the parent, replaceLiveFileId sets it)
    session,         \* the store's session of liveFileId, the only one the hook observes
    bufferText,      \* the bufferText prop (owned by the buffer owner, setBufferText sets it)
    rendered,        \* the values of the last render, which the callbacks close over
    pendingEffects,  \* effects of the last render that have not run yet, in order
    diffSummary,     \* React state
    status,          \* React state
    reads,           \* gateway reads on liveFileId's session awaiting their I/O
    writes,          \* gateway writes on liveFileId's session awaiting their I/O
    lateWrites,      \* gateway writes awaiting their I/O whose session is gone
    calcCalls        \* call-count probe of calculateDiffStats, reset by each render

vars == <<liveFileId, session, bufferText, rendered, pendingEffects,
          diffSummary, status, reads, writes, lateWrites, calcCalls>>

\* ------------------------------------------------------- Diff Summarizer
\* The edit script of makeDiff + cleanupEfficiency: a minimal character diff,
\* one <<operation, text>> pair per span (1 insert, -1 delete, 0 equal).
RECURSIVE makeDiff(_, _)
makeDiff(fromText, toText) ==
    IF fromText = <<>> /\ toText = <<>> THEN <<>>
    ELSE IF fromText = <<>> THEN << <<1, toText>> >>
    ELSE IF toText = <<>> THEN << <<-1, fromText>> >>
    ELSE IF Head(fromText) = Head(toText)
         THEN << <<0, <<Head(fromText)>> >> >> \o makeDiff(Tail(fromText), Tail(toText))
    ELSE LET del == << <<-1, <<Head(fromText)>> >> >> \o makeDiff(Tail(fromText), toText)
             ins == << <<1, <<Head(toText)>> >> >> \o makeDiff(fromText, Tail(toText))
             chars(d) == LET RECURSIVE sum(_)
                             sum(i) == IF i = 0 THEN 0
                                       ELSE sum(i - 1) + (IF d[i][1] # 0 THEN Len(d[i][2]) ELSE 0)
                         IN sum(Len(d))
         IN IF chars(del) <= chars(ins) THEN del ELSE ins

RECURSIVE reduceDiffs(_, _)
reduceDiffs(diffs, acc) ==
    IF diffs = <<>> THEN acc
    ELSE LET operation == Head(diffs)[1]
             text == Head(diffs)[2]
             next == IF operation = 1
                        THEN [acc EXCEPT !.insertions = @ + Len(text)]
                     ELSE IF operation = -1
                        THEN [acc EXCEPT !.deletions = @ + Len(text)]
                     ELSE acc
         IN reduceDiffs(Tail(diffs), next)

\* (a summarizer called with its arguments swapped)
calculateDiffStatsSwapped(fromText, toText) ==
    reduceDiffs(makeDiff(toText, fromText), [insertions |-> 0, deletions |-> 0])

calculateDiffStats(fromText, toText) ==
    reduceDiffs(makeDiff(fromText, toText), [insertions |-> 0, deletions |-> 0])

\* ------------------------------------------- Pairing Gateway / session store
\* The store maps identifiers to sessions.  The hook reads only the session of
\* its _liveFileId, and an identifier it has left (closed, or replaced by a new
\* pairing) never becomes active again, so the session of liveFileId is the
\* part of the store that is kept; operations still awaiting I/O on a session
\* that is gone can no longer change a session the hook reads.

\* No session under the identifier (nothing paired, or closed).
NoFile == [open |-> FALSE, granted |-> FALSE, content |-> Undefined,
           error |-> NoError, isLoading |-> FALSE, isSaving |-> FALSE]
\* The session pairWithHandle registers: empty content, permission granted.
NewFile == [open |-> TRUE, granted |-> TRUE, content |-> Undefined,
            error |-> NoError, isLoading |-> FALSE, isSaving |-> FALSE]

\* isValid(id): the identifier maps to a session whose handle still grants permission
isValid == liveFileId # NoId /\ session.open /\ session.granted

\* read(id) is called: the in-flight load flag goes up (nothing without a session)
gatewayRead ==
    IF session.open
    THEN /\ reads < MaxReads
         /\ session' = [session EXCEPT !.isLoading = TRUE]
         /\ reads' = reads + 1
    ELSE UNCHANGED <<session, reads>>

\* the external read of read(id) returns: on success the content is replaced and
\* the error cleared, on failure the error is set and the content kept
gatewayReadDone(ok, text, err) ==
    session' = IF ok
               THEN [session EXCEPT !.content = text, !.error = NoError,
                                    !.isLoading = FALSE]
               ELSE [session EXCEPT !.error = err, !.isLoading = FALSE]

\* write(id, text) is called: isSaving goes up for the operation's duration
gatewayWrite ==
    IF session.open
    THEN /\ writes + lateWrites < MaxWrites
         /\ session' = [session EXCEPT !.isSaving = TRUE]
         /\ writes' = writes + 1
    ELSE UNCHANGED <<session, writes>>

\* the external write of write(id, text) returns: isSaving is released on every
\* path, a failure sets the error, a success updates nothing else
gatewayWriteDone(saved, err) ==
    session' = IF saved
               THEN [session EXCEPT !.isSaving = FALSE]
               ELSE [session EXCEPT !.isSaving = FALSE, !.error = err]

\* close(id): unmaps the identifier and discards its session; idempotent.
\* Reads awaiting their I/O find no session to update; writes still return.
gatewayClose ==
    /\ session' = NoFile
    /\ reads' = 0
    /\ writes' = 0
    /\ lateWrites' = lateWrites + writes

\* ------------------------------------------------ useLiveFile, derived state
\* fileData of useLiveFile(_liveFileId), with the defaults of the derived state
fileData == IF liveFileId # NoId /\ session.open THEN session ELSE NoFile

\* what a render now would see
Current == [liveFileId     |-> liveFileId,
            bufferText     |-> bufferText,
            fileContent    |-> fileData.content,
            fileErrorText  |-> fileData.error,
            isLoadingFile  |-> fileData.isLoading,
            isSavingFile   |-> fileData.isSaving,
            isPairingValid |-> isValid]

fileHasContent == rendered.fileContent # Undefined
fileIsDifferent ==
    /\ diffSummary # NullSummary
    /\ (diffSummary.deletions # 0 \/ diffSummary.insertions # 0)
\* (a refocus test that forgets the content)
shallUpdateIfPaired == rendered.isPairingValid
shallUpdateOnRefocus == rendered.isPairingValid /\ fileHasContent

\* no effect is waiting to run
EffectsDone == pendingEffects = <<>>
\* the last render is up to date and its effects have run: React re-renders
\* and flushes the effects before the next event is handled
Quiescent == EffectsDone /\ rendered = Current

\* --------------------------------------------------------------- messages
MsgIdentical == Status(IF isMobile THEN "Identical to File."
                       ELSE "The File is identical to this Document.", "info")
MsgBoth(summary) ==
    Status("Document has " \o ToString(summary.insertions) \o " insertions and "
           \o ToString(summary.deletions) \o " deletions.", "changes")
MsgInsertions(summary) ==
    Status("Document has " \o ToString(summary.insertions) \o " insertions.", "changes")
MsgDeletions(summary) ==
    Status("Document has " \o ToString(summary.deletions) \o " deletions.", "changes")
MsgNoChanges == Status("No changes.", "info")
MsgError(fileErrorText) == Status(fileErrorText, "error")
MsgAlreadyLoading == Status("Already Loading file...", "info")
MsgReading == Status("Reading file...", "info")
MsgPairError(e) == Status("Error pairing the file: Error: " \o e, "error")
MsgNoContent == Status("No file content loaded. Please preview changes first.", "info")
MsgNoFilePaired == Status("No file paired. Please choose a file first.", "info")
MsgSaving == Status("Saving to file...", "info")
MsgSaved == Status("Content saved to file.", "success")

\* ------------------------------------------------------ render and effects
\* A render: the callbacks and effects are re-created over the current values;
\* an effect is scheduled when one of its dependencies changed.
Render ==
    /\ EffectsDone
    /\ rendered # Current
    /\ rendered' = Current
    /\ pendingEffects' =
          (IF Current.bufferText # rendered.bufferText
              \/ Current.fileContent # rendered.fileContent
           THEN <<"diff">> ELSE <<>>)
          \o (IF Current.fileErrorText # rendered.fileErrorText
              THEN <<"error">> ELSE <<>>)
    /\ calcCalls' = 0
    /\ UNCHANGED <<liveFileId, session, bufferText, diffSummary, status,
                   reads, writes, lateWrites>>

\* `fileContent === undefined || bufferText === undefined`
eitherAbsent(fileContent, text) == fileContent = Undefined \/ text = Undefined

\* the summary set when either side is absent, given the one before
summaryKept(previous) == previous
summaryIfAbsent(previous) == NullSummary

\* `fileContent === bufferText`: the equality short-circuit
sameContentNever(fileContent, text) == FALSE
sameContent(fileContent, text) == fileContent = text

\* [effect] Auto-compute the diffs when the underlying text changes
DiffEffect ==
    /\ pendingEffects # <<>> /\ Head(pendingEffects) = "diff"
    /\ pendingEffects' = Tail(pendingEffects)
    /\ LET fileContent == rendered.fileContent
           text == rendered.bufferText
       IN IF eitherAbsent(fileContent, text)
          THEN /\ diffSummary' = summaryIfAbsent(diffSummary)
               /\ UNCHANGED <<status, calcCalls>>
          ELSE IF sameContent(fileContent, text)
          THEN /\ diffSummary' = [insertions |-> 0, deletions |-> 0]
               /\ status' = MsgIdentical
               /\ UNCHANGED calcCalls
          ELSE LET summary == calculateDiffStats(fileContent, text)
               IN /\ calcCalls' = calcCalls + 1
                  /\ diffSummary' = summary
                  /\ status' =
                        IF summary.insertions # 0 /\ summary.deletions # 0
                        THEN MsgBoth(summary)
                        ELSE IF summary.insertions # 0 THEN MsgInsertions(summary)
                        ELSE IF summary.deletions # 0 THEN MsgDeletions(summary)
                        ELSE MsgNoChanges
    /\ UNCHANGED <<liveFileId, session, bufferText, rendered,
                   reads, writes, lateWrites>>

\* [effect] On error, replace the status message with the error message
ErrorEffect ==
    /\ pendingEffects # <<>> /\ Head(pendingEffects) = "error"
    /\ pendingEffects' = Tail(pendingEffects)
    /\ status' = IF rendered.fileErrorText # NoError
                 THEN MsgError(rendered.fileErrorText) ELSE status
    /\ UNCHANGED <<liveFileId, session, bufferText, rendered, diffSummary,
                   reads, writes, lateWrites, calcCalls>>

\* -------------------------------------------------------------- callbacks
\* The two status checks of _handleReloadFileContent, over the values the
\* callback closed over.
reloadStatus(isLoadingFile, hasContent, st) ==
    LET s1 == IF isLoadingFile THEN MsgAlreadyLoading ELSE st
    IN IF ~hasContent THEN MsgReading ELSE s1

\* reloadFileContent() of useLiveFile on the hook's own identifier
reloadFileContent ==
    IF rendered.liveFileId # NoId THEN gatewayRead ELSE UNCHANGED <<session, reads>>

\* (a reload that also puts the last-known file content into the buffer)
ReloadOverwritesBuffer ==
    /\ Quiescent
    /\ status' = reloadStatus(rendered.isLoadingFile, fileHasContent, status)
    /\ reloadFileContent
    /\ bufferText' = IF fileHasContent THEN rendered.fileContent ELSE bufferText
    /\ UNCHANGED <<liveFileId, rendered, pendingEffects,
                   diffSummary, writes, lateWrites, calcCalls>>

_handleReloadFileContent ==
    /\ Quiescent
    /\ status' = reloadStatus(rendered.isLoadingFile, fileHasContent, status)
    /\ reloadFileContent
    /\ UNCHANGED <<liveFileId, bufferText, rendered, pendingEffects,
                   diffSummary, writes, lateWrites, calcCalls>>

\* the refresh button, or the control button's onUpdateFileContent
UserReload == _handleReloadFileContent

\* the window-focus subscription: focused, and shallUpdateOnRefocus of its render
FocusReload == shallUpdateOnRefocus /\ _handleReloadFileContent

\* the window-focus subscription on a blur, or on a focus without
\* shallUpdateOnRefocus: the callback does nothing
FocusIgnored ==
    \E focused \in BOOLEAN :
        /\ Quiescent
        /\ ~(focused /\ shallUpdateOnRefocus)
        /\ UNCHANGED vars

\* `await reloadFileContent(liveFileId)` resolves: the external read returned,
\* with the file's text or with a failure; nothing follows the await
readReturns(ok, text, err) ==
    /\ Quiescent
    /\ reads > 0
    /\ reads' = reads - 1
    /\ gatewayReadDone(ok, text, err)
    /\ UNCHANGED <<liveFileId, bufferText, rendered, pendingEffects,
                   diffSummary, status, writes, lateWrites, calcCalls>>

\* the external read returns, with the file's text or a failure
ReadComplete ==
    \E ok \in BOOLEAN, text \in Texts, err \in Errors :
        /\ (ok => err = "E1") /\ (~ok => text = <<>>)
        /\ readReturns(ok, text, err)

\* (a close that resets the summary and forgets the status)
CloseKeepsStatus ==
    /\ Quiescent
    /\ IF rendered.liveFileId # NoId THEN gatewayClose
       ELSE UNCHANGED <<session, reads, writes, lateWrites>>
    /\ diffSummary' = NullSummary
    /\ UNCHANGED <<liveFileId, bufferText, rendered, pendingEffects,
                   status, calcCalls>>

\* closeFileContent() resolves at once, then the summary and the status are reset
handleCloseFile ==
    /\ Quiescent
    /\ IF rendered.liveFileId # NoId THEN gatewayClose
       ELSE UNCHANGED <<session, reads, writes, lateWrites>>
    /\ diffSummary' = NullSummary
    /\ status' = NullStatus
    /\ UNCHANGED <<liveFileId, bufferText, rendered, pendingEffects,
                   calcCalls>>

\* (a pairing that replaces the identifier and forgets to load the preview)
PairWithoutReload ==
    /\ Quiescent
    /\ liveFileId < MaxIds
    /\ liveFileId' = liveFileId + 1
    /\ session' = NewFile
    /\ reads' = 0
    /\ writes' = 0
    /\ lateWrites' = lateWrites + writes
    /\ UNCHANGED <<bufferText, rendered, pendingEffects, diffSummary, status, calcCalls>>

\* handlePairNewFSFHandle when liveFileCreateOrThrow returns a new identifier:
\* replaceLiveFileId, then _handleReloadFileContent(liveFileId) - the callback
\* of the render the pairing was started in - reads on the new session.
\* (Registration is not a suspension point: only reads and writes are.)
PairSucceeds ==
    /\ Quiescent
    /\ liveFileId < MaxIds
    /\ liveFileId' = liveFileId + 1
    /\ status' = reloadStatus(rendered.isLoadingFile, fileHasContent, status)
    /\ session' = [NewFile EXCEPT !.isLoading = TRUE]
    /\ reads' = 1
    /\ writes' = 0
    /\ lateWrites' = lateWrites + writes
    /\ UNCHANGED <<bufferText, rendered, pendingEffects, diffSummary, calcCalls>>

\* handlePairNewFSFHandle when liveFileCreateOrThrow throws: the catch clause
PairFails ==
    \E e \in Errors :
        /\ Quiescent
        /\ status' = MsgPairError(e)
        /\ UNCHANGED <<liveFileId, session, bufferText, rendered, pendingEffects,
                       diffSummary, reads, writes, lateWrites, calcCalls>>

handlePairNewFSFHandle == PairSucceeds \/ PairFails

\* (a load that tests `!fileContent` instead of `fileContent === undefined`)
LoadFromDiskFalsy ==
    /\ Quiescent
    /\ IF rendered.fileContent = Undefined \/ rendered.fileContent = <<>>
       THEN status' = MsgNoContent /\ UNCHANGED bufferText
       ELSE bufferText' = rendered.fileContent /\ UNCHANGED status
    /\ UNCHANGED <<liveFileId, session, rendered, pendingEffects, diffSummary,
                   reads, writes, lateWrites, calcCalls>>

handleLoadFromDisk ==
    /\ Quiescent
    /\ IF rendered.fileContent = Undefined
       THEN status' = MsgNoContent /\ UNCHANGED bufferText
       ELSE bufferText' = rendered.fileContent /\ UNCHANGED status
    /\ UNCHANGED <<liveFileId, session, rendered, pendingEffects, diffSummary,
                   reads, writes, lateWrites, calcCalls>>

\* (a save whose unpaired branch does not return)
SaveToDiskFallsThrough ==
    /\ Quiescent
    /\ status' = MsgSaving
    /\ gatewayWrite
    /\ UNCHANGED <<liveFileId, bufferText, rendered, pendingEffects,
                   diffSummary, reads, lateWrites, calcCalls>>

handleSaveToDisk ==
    /\ Quiescent
    /\ IF ~rendered.isPairingValid
       THEN /\ status' = MsgNoFilePaired
            /\ UNCHANGED <<session, writes>>
       ELSE /\ status' = MsgSaving
            /\ gatewayWrite
    /\ UNCHANGED <<liveFileId, bufferText, rendered, pendingEffects,
                   diffSummary, reads, lateWrites, calcCalls>>

\* (a save whose success also marks the document as in sync with the file)
writeReturnsInSync(saved, err) ==
    /\ Quiescent
    /\ writes > 0
    /\ writes' = writes - 1
    /\ gatewayWriteDone(saved, err)
    /\ status' = IF saved THEN MsgSaved ELSE status
    /\ diffSummary' = IF saved THEN [insertions |-> 0, deletions |-> 0] ELSE diffSummary
    /\ UNCHANGED <<liveFileId, bufferText, rendered, pendingEffects,
                   reads, lateWrites, calcCalls>>

\* the external write returns `saved`; handleSaveToDisk resumes after its await
writeReturns(saved, err) ==
    /\ Quiescent
    /\ writes > 0
    /\ writes' = writes - 1
    /\ gatewayWriteDone(saved, err)
    /\ status' = IF saved THEN MsgSaved ELSE status
    /\ UNCHANGED <<liveFileId, bufferText, rendered, pendingEffects,
                   diffSummary, reads, lateWrites, calcCalls>>

\* the external write returns; handleSaveToDisk resumes with `saved`
WriteComplete ==
    \E saved \in BOOLEAN, err \in Errors :
        /\ (saved => err = "E1")
        /\ writeReturns(saved, err)

\* the external write of a session that is gone returns; handleSaveToDisk resumes
LateWriteComplete ==
    \E saved \in BOOLEAN :
        /\ Quiescent
        /\ lateWrites > 0
        /\ lateWrites' = lateWrites - 1
        /\ status' = IF saved THEN MsgSaved ELSE status
        /\ UNCHANGED <<liveFileId, session, bufferText, rendered, pendingEffects,
                       diffSummary, reads, writes, calcCalls>>

\* ------------------------------------------------------------ environment
\* the buffer owner pushes a new bufferText
EditBuffer ==
    \E text \in Texts :
        /\ Quiescent
        /\ text # bufferText
        /\ bufferText' = text
        /\ UNCHANGED <<liveFileId, session, rendered, pendingEffects,
                       diffSummary, status, reads, writes, lateWrites, calcCalls>>

\* the platform revokes the permission of the paired handle
RevokePermission ==
    /\ Quiescent
    /\ isValid
    /\ session' = [session EXCEPT !.granted = FALSE]
    /\ UNCHANGED <<liveFileId, bufferText, rendered, pendingEffects,
                   diffSummary, status, reads, writes, lateWrites, calcCalls>>

\* ---------------------------------------------------------- specification
Init ==
    /\ liveFileId = NoId
    /\ session = NoFile
    /\ bufferText \in Texts
    /\ rendered = [liveFileId |-> NoId, bufferText |-> bufferText,
                   fileContent |-> Undefined, fileErrorText |-> NoError,
                   isLoadingFile |-> FALSE, isSavingFile |-> FALSE,
                   isPairingValid |-> FALSE]
    /\ pendingEffects = <<"diff", "error">>
    /\ diffSummary = NullSummary
    /\ status = NullStatus
    /\ reads = 0
    /\ writes = 0
    /\ lateWrites = 0
    /\ calcCalls = 0

Next ==
    \/ Render
    \/ DiffEffect
    \/ ErrorEffect
    \/ UserReload
    \/ FocusReload
    \/ FocusIgnored
    \/ ReadComplete
    \/ handleCloseFile
    \/ PairSucceeds
    \/ PairFails
    \/ handleLoadFromDisk
    \/ handleSaveToDisk
    \/ WriteComplete
    \/ LateWriteComplete
    \/ EditBuffer
    \/ RevokePermission

Spec == Init /\ [][Next]_vars

\* ------------------------------------------------------------ properties
TypeOK ==
    /\ liveFileId \in {NoId} \cup Ids
    /\ bufferText \in Texts
    /\ session.content \in Texts \cup {Undefined}
    /\ session.error \in Errors \cup {NoError}
    /\ reads \in 0..MaxReads
    /\ writes + lateWrites \in 0..MaxWrites
    /\ calcCalls \in 0..1

\* the session of liveFileId was closed (an identifier was paired and its session is gone)
Closed == liveFileId # NoId /\ ~session.open

\* the statuses the diff effect derives from a comparison
isDiffDerived(st) == st.mtype = "changes" \/ st \in {MsgIdentical, MsgNoChanges}

\* C1: at most one read is in flight per session - a reload invoked while the
\* previous one is still loading issues no second underlying read.
C1_AtMostOneRead == reads <= 1

\* C2: whenever the session's error is nonempty and the effects have run, the
\* error keeps narration priority over the divergence: the status is not a
\* diff-derived one, also after a later recomputation.
C2_ErrorOverride ==
    (Quiescent /\ fileData.error # NoError) => ~isDiffDerived(status)

\* C3: once a save has completed (no write is awaiting its I/O and the effects
\* have run), the status is not left at the in-progress 'Saving to file...'.
C3_SaveNeverLeftInProgress ==
    (Quiescent /\ writes = 0 /\ lateWrites = 0) => status # MsgSaving

\* C4: a reload on a closed identifier is a no-op: no read, and the status and
\* the diff summary stay exactly as close left them.
C4_ReloadAfterCloseNoOp ==
    [][(_handleReloadFileContent /\ Closed)
        => (~isValid /\ reads' = reads /\ status' = status /\ diffSummary' = diffSummary)]_vars

\* C5: whenever the session's content is absent and the effects have run, the
\* diff summary is null, so Load from File / Save to File are not offered.
C5_NoContentNoSummary ==
    (Quiescent /\ fileData.content = Undefined)
        => (diffSummary = NullSummary /\ ~fileIsDifferent)

\* C5 witness: the hook moved on to a new identifier, whose content is not loaded
\* yet, while the status still narrates the comparison with the previous file.
C5_Witness ==
    /\ Quiescent
    /\ liveFileId = 2
    /\ fileData.content = Undefined
    /\ status.mtype = "changes"
    /\ diffSummary = NullSummary

\* C6: a recomputation with a side absent sets the summary to null and leaves no
\* diff-derived status of an earlier comparison visible.
C6_AbsentClearsStatus ==
    [][(DiffEffect /\ eitherAbsent(rendered.fileContent, rendered.bufferText))
        => (diffSummary' = NullSummary /\ ~isDiffDerived(status'))]_vars

\* C7: a recomputation with content and buffer present and equal sets the summary
\* to {0, 0} and the status to 'identical', without calling calculateDiffStats.
C7_IdenticalShortCircuit ==
    [][(DiffEffect /\ rendered.fileContent # Undefined
                   /\ rendered.fileContent = rendered.bufferText)
        => (/\ diffSummary' = [insertions |-> 0, deletions |-> 0]
            /\ status' = MsgIdentical
            /\ status'.mtype = "info"
            /\ calcCalls' = calcCalls)]_vars

\* C7 witness: the effects ran on equal, non-empty texts.
C7_Witness ==
    /\ Quiescent
    /\ fileData.content = <<"a", "b">>
    /\ bufferText = <<"a", "b">>
    /\ diffSummary = [insertions |-> 0, deletions |-> 0]
    /\ status = MsgIdentical
    /\ calcCalls = 0

\* C8: a pairing that succeeds replaces the identifier and at once issues a read
\* on the new session; one that fails sets an error status with the failure's
\* description, issues no read and leaves identifier, session and summary alone.
C8_Pair ==
    [][/\ PairSucceeds => (/\ liveFileId' # liveFileId
                           /\ session'.open /\ session'.content = Undefined
                           /\ session'.isLoading /\ reads' = 1)
       /\ PairFails => (/\ status'.mtype = "error"
                        /\ \E e \in Errors : status' = MsgPairError(e)
                        /\ UNCHANGED <<liveFileId, session, reads, diffSummary>>)]_vars

\* C8 witness: a pairing failed while a session with content and a nonzero
\* diff was active; identifier, session and summary are still there.
C8_Witness ==
    /\ status \in {MsgPairError(e) : e \in Errors}
    /\ liveFileId = 1
    /\ session.open /\ session.content # Undefined
    /\ fileIsDifferent

\* C9: loadFromDisk without content sets the 'No file content loaded' status and
\* leaves the buffer alone; with content it overwrites the buffer with exactly
\* that content, whether or not the pairing is valid; and once buffer and content
\* are equal and the effects have run, the summary is {0, 0}.
C9_LoadFromDisk ==
    /\ [][handleLoadFromDisk =>
            IF session.content = Undefined \/ ~session.open
            THEN status' = MsgNoContent /\ bufferText' = bufferText
            ELSE bufferText' = session.content /\ status' = status]_vars
    /\ [][(DiffEffect /\ rendered.fileContent # Undefined
                      /\ rendered.fileContent = rendered.bufferText)
            => status' = MsgIdentical]_vars
    /\ []((Quiescent /\ fileData.content # Undefined /\ bufferText = fileData.content)
            => diffSummary = [insertions |-> 0, deletions |-> 0])

\* C9 witness: the stale content of a pairing that is no longer valid was loaded
\* into the buffer, and the recomputation ran.
C9_Witness ==
    /\ Quiescent
    /\ session.open /\ ~session.granted
    /\ fileData.content = <<>>
    /\ bufferText = fileData.content
    /\ status = MsgIdentical
    /\ diffSummary = [insertions |-> 0, deletions |-> 0]

\* C10: saveToDisk without a valid pairing sets the 'No file paired' status and
\* issues no write; session, buffer and diff summary are unchanged.
C10_SaveUnpaired ==
    [][(handleSaveToDisk /\ ~rendered.isPairingValid)
        => (/\ status' = MsgNoFilePaired
            /\ UNCHANGED <<session, writes, lateWrites, bufferText, diffSummary>>)]_vars

\* C10 witness: the save was refused on a pairing whose permission was revoked
\* while its content and a nonzero diff are still shown.
C10_Witness ==
    /\ status = MsgNoFilePaired
    /\ session.open /\ ~session.granted
    /\ fileIsDifferent

C12_CloseResets ==
    /\ [][handleCloseFile => (diffSummary' = NullSummary /\ status' = NullStatus)]_vars
    /\ [][((Render \/ DiffEffect \/ ErrorEffect) /\ Closed
              /\ diffSummary = NullSummary /\ status = NullStatus)
            => (diffSummary' = NullSummary /\ status' = NullStatus)]_vars

\* C12 witness: a session whose last render showed content differing from the
\* buffer and an error has just been closed.
C12_Witness ==
    /\ Closed
    /\ diffSummary = NullSummary /\ status = NullStatus
    /\ rendered.fileContent # Undefined
    /\ rendered.fileContent # rendered.bufferText
    /\ rendered.fileErrorText # NoError

\* C13: a read that fails keeps the content, sets a non-empty error, leaves the
\* pairing open and the diff summary as it was; and the status becomes the
\* error: once every read has returned and the effects have run, it is not left
\* at the in-progress 'Reading file...'.
C13_FailedRead ==
    /\ [][(\E err \in Errors : readReturns(FALSE, <<>>, err))
            => (/\ session'.content = session.content
                /\ session'.error # NoError
                /\ session'.open
                /\ diffSummary' = diffSummary)]_vars
    /\ []((Quiescent /\ session.open /\ reads = 0) => status # MsgReading)

\* the length of a longest common subsequence of two texts
RECURSIVE lcsLen(_, _)
lcsLen(x, y) ==
    IF x = <<>> \/ y = <<>> THEN 0
    ELSE IF Head(x) = Head(y) THEN 1 + lcsLen(Tail(x), Tail(y))
    ELSE LET l == lcsLen(Tail(x), y)
             r == lcsLen(x, Tail(y))
         IN IF l >= r THEN l ELSE r

Hello == <<"h", "e", "l", "l", "o">>
HelloWorld == Hello \o <<" ", "w", "o", "r", "l", "d">>

\* C14: with content and buffer present and unequal, the summary counts from the
\* file to the buffer (characters only in the buffer are insertions, characters
\* only in the file deletions) and the status follows the priority both >
\* insertions > deletions > 'No changes.'; file 'hello' and buffer 'hello world'
\* give {6, 0} and 'Document has 6 insertions.'.
C14_DiffSummaryAndStatus ==
    /\ [][(DiffEffect /\ rendered.fileContent # Undefined
                      /\ rendered.fileContent # rendered.bufferText)
            => LET common == lcsLen(rendered.fileContent, rendered.bufferText)
                   ins == Len(rendered.bufferText) - common
                   del == Len(rendered.fileContent) - common
               IN /\ diffSummary' = [insertions |-> ins, deletions |-> del]
                  /\ status' =
                       IF ins > 0 /\ del > 0
                       THEN Status("Document has " \o ToString(ins) \o " insertions and "
                                   \o ToString(del) \o " deletions.", "changes")
                       ELSE IF ins > 0
                       THEN Status("Document has " \o ToString(ins) \o " insertions.",
                                   "changes")
                       ELSE IF del > 0
                       THEN Status("Document has " \o ToString(del) \o " deletions.",
                                   "changes")
                       ELSE Status("No changes.", "info")]_vars
    /\ [](/\ calculateDiffStats(Hello, HelloWorld) = [insertions |-> 6, deletions |-> 0]
          /\ MsgInsertions(calculateDiffStats(Hello, HelloWorld))
               = Status("Document has 6 insertions.", "changes"))

\* C14 witness: the file holds 'a', the buffer 'ab', and the effects have run.
C14_Witness ==
    /\ Quiescent
    /\ fileData.content = <<"a">>
    /\ bufferText = <<"a", "b">>
    /\ diffSummary = [insertions |-> 1, deletions |-> 0]
    /\ status = Status("Document has 1 insertions.", "changes")
    /\ calcCalls = 1

\* C15: whenever a user reload, the initial load after pairing, or a focus
\* refresh starts while no content has been loaded yet, the status becomes the
\* info message 'Reading file...'.
C15_ReadingShownWithoutContent ==
    [][((PairSucceeds \/ UserReload \/ FocusReload)
          /\ session'.open /\ session'.isLoading /\ session'.content = Undefined)
        => status' = MsgReading]_vars

\* C16: a successful save changes only the status: the last-known file content,
\* the session error, the buffer and the diff summary stay as they were, so a
\* divergence shown before the save is still shown after it; the last-known
\* content of a session changes only when a read returns.
C16_SaveChangesOnlyStatus ==
    /\ [][writeReturns(TRUE, "E1")
            => (/\ status' = MsgSaved
                /\ session'.content = session.content
                /\ session'.error = session.error
                /\ session'.open /\ ~session'.isSaving
                /\ diffSummary' = diffSummary
                /\ bufferText' = bufferText
                /\ liveFileId' = liveFileId
                /\ (fileIsDifferent => fileIsDifferent'))]_vars
    /\ [][(session.open /\ session'.open /\ liveFileId' = liveFileId
             /\ session'.content # session.content)
            => ReadComplete]_vars

\* C16 witness: the save has succeeded while buffer and file content differ,
\* and the summary still reports the divergence.
C16_Witness ==
    /\ Quiescent
    /\ status = MsgSaved
    /\ writes = 0 /\ lateWrites = 0 /\ reads = 0
    /\ session.open /\ session.content # Undefined
    /\ session.content # bufferText
    /\ fileIsDifferent
    /\ diffSummary # NullSummary
    /\ diffSummary # [insertions |-> 0, deletions |-> 0]

\* C17: the controller changes the buffer only through loadFromDisk: every step
\* that changes bufferText is loadFromDisk or the buffer owner's own edit, so no
\* pair, reload (user or focus), save, close, read or write completion, render
\* or effect run overwrites the buffer.
C17_BufferOnlyByLoadFromDisk ==
    /\ [][bufferText' # bufferText => (handleLoadFromDisk \/ EditBuffer)]_vars
    /\ [][(FocusReload \/ UserReload \/ ReadComplete) => bufferText' = bufferText]_vars

\* C17 witness: a reload has just started on a session whose content differs
\* from the buffer; the buffer still holds the user's text.
C17_Witness ==
    /\ EffectsDone
    /\ reads = 1 /\ session.isLoading /\ ~rendered.isLoadingFile
    /\ session.open /\ session.content = <<"a">>
    /\ bufferText = <<"b">>
    /\ diffSummary = [insertions |-> 1, deletions |-> 1]

\* C18: the error status does not outlive the error: in every quiescent state
\* whose status is the error message of a session error, the session error is
\* still nonempty.
C18_ErrorStatusNotStale ==
    (Quiescent /\ status \in {MsgError(e) : e \in Errors}) => fileData.error # NoError

\* C19: close is final with respect to in-flight operations: once the session
\* is closed and the summary and the status are null, the late completion of a
\* save or reload started before the close leaves them null.
C19_CloseIsFinal ==
    [][(LateWriteComplete /\ Closed /\ diffSummary = NullSummary /\ status = NullStatus)
        => (diffSummary' = NullSummary /\ status' = NullStatus)]_vars

====
